---- MODULE Spec2Model ----
(***************************************************************************)
(* Model of the process-execution subsystem, src/lib/core/exe.py:          *)
(* ProcessHandler (output queue, reader thread, registry admission), the   *)
(* class-level registry ProcessHandler.procs and the atexit hook           *)
(* _terminate.                                                             *)
(*                                                                         *)
(* The specifications of the module:                                       *)
(*   SpecOutput - one spawned invoker: the command writing lines, the      *)
(*                reader thread (_enqueue_output) and concurrent           *)
(*                get_output callers, one step per Queue operation;        *)
(*   Spec       - the registry under concurrent run() calls (admission,    *)
(*                compaction, spawn), process exits and the reaper;        *)
(*   SpecSeq    - the registry when only the main thread calls run();      *)
(*   SpecApi    - run(), poll() and kill() called one after the other;     *)
(*   SpecKill   - poll() and kill() on a full registry, with fairness;     *)
(*   SpecBlock  - one block_run call, by check_output or by polling;       *)
(*   SpecReap   - SpecSeq where a kill attempt of the reaper may fail;     *)
(*   SpecNonBlock - one caller of poll() and get_output(), with fairness;  *)
(*   SpecFair   - Spec with a fair scheduler for the threads in run();     *)
(*   SpecTwice  - SpecSeq where _terminate may be called once more;        *)
(*   SpecBlockFair - SpecBlock with fair block_run and reader steps;       *)
(*   SpecArgs   - the arguments of run(): the command Popen is given and   *)
(*                the keyword arguments after _override_kwargs.            *)
(***************************************************************************)
EXTENDS Integers, Sequences, FiniteSets

\* ---------------------------------------------------------------- bounds
\* Largest max_line given to ProcessHandler(max_line=...)
MaxCap == 2
\* Largest number of lines the command writes to its stdout
MaxLines == 3
\* Number of threads calling get_output on the invoker
NConsumers == 2

\* Number of ProcessHandler objects that run() is called on
NHandlers == 3
\* Number of threads calling run()
NThreads == 2
\* Capacity of the registry: MAX_PROCS = 1024 in exe.py line 22, scaled down
MAX_PROCS == 2

Consumers == 1..NConsumers
Handlers == 1..NHandlers
Threads == 1..NThreads
\* The thread whose end starts the interpreter's exit
MainThread == 1
\* The handler whose output path SpecOutput follows
Observed == 1
\* Exit codes of a command that ends by itself; one killed by kill() reports
\* -SIGKILL
ExitCodes == {0, 3}
SIGKILL == 9

VARIABLES
  \* ---- SpecOutput: program state
  max_line,       \* argument of ProcessHandler.__init__: None or <<n>>
  output_queue,   \* self._output_queue: the lines held, oldest first
  written,        \* number of lines the command has written to its stdout
  nread,          \* number of lines readline() has handed to the reader
  rpc,            \* position of the reader thread in _enqueue_output
  line,           \* the reader's loop variable
  stdout_closed,  \* self.proc.stdout.close() was executed
  cpc,            \* position of each get_output caller
  ret_list,       \* get_output's local list
  \* ---- SpecOutput: history
  enqueued,       \* the lines put into the queue, in put order
  evicted,        \* the lines removed by the reader (line 93)
  returned,       \* per caller: the lines its completed calls returned
  called,         \* some get_output call has started
  first,          \* per caller: its current call is a first, undisturbed one
  noNew,          \* per caller: its current call follows an emptying one
  drained,        \* a call has returned and no line was enqueued since
  seen,           \* the kinds of calls ("first", "noNew") that have returned
  \* ---- Spec, SpecSeq: program state
  procs,          \* ProcessHandler.procs: the handlers tracked, oldest first
  proc,           \* per handler: self._proc
  thread,         \* per handler: the reader threads started for it
  stdout,         \* per handler: kwargs['stdout'] of its run() call
  created,        \* number of ProcessHandler objects constructed
  pc,             \* per thread: position inside run()
  self,           \* per thread: the handler its run() call is on
  new_queue,      \* per thread: new_queue of _append_proc_handler
  outcome,        \* per thread: how its latest run() call ended
  exiting,        \* the interpreter is exiting (atexit hooks run)
  tpc,            \* position inside _terminate
  \* ---- Spec, SpecSeq: history
  pre,            \* during the main thread's admission: procs at its start
  quiet,          \* during that admission: no process has exited so far
  \* ---- kill() and poll()
  killed,         \* per handler: SIGKILL was sent to its process
  polled,         \* how the latest poll() or kill() call ended
  \* ---- SpecBlock: block_run
  py27,           \* sys.version_info >= (2, 7)
  bpc,            \* position inside block_run
  given,          \* the command as the caller passed it
  command,        \* block_run's local variable command
  shell,          \* kwargs.get('shell', False)
  output,         \* block_run's local variable output
  bresult,        \* how block_run ended: its return value or its exception
  \* ---- SpecArgs: the arguments of run()
  kwargs,         \* the keyword arguments as the caller passed them
  _command,       \* self._command
  popen           \* the arguments subprocess.Popen is called with

ovars == <<max_line, output_queue, written, nread, rpc, line,
           stdout_closed, cpc, ret_list, enqueued, evicted, returned,
           called, first, noNew, drained, seen>>

rvars == <<procs, proc, thread, stdout, created, pc, self, new_queue,
           outcome, exiting, tpc, pre, quiet>>

avars == <<killed, polled>>

bvars == <<py27, bpc, given, command, shell, output, bresult>>

cvars == <<kwargs, _command, popen>>

vars == <<ovars, rvars, avars, bvars, cvars>>

\* ------------------------------------------------------------- helpers
Range(s) == {s[i] : i \in 1..Len(s)}

\* Python's None for an optional integer: None is <<>>, the integer n is <<n>>
None == <<>>

\* The i-th line the command writes: its text and the newline
NL == 0
Line(i) == <<i, NL>>
NoLine == <<>>
\* The first n lines of the command's output
Stream(n) == [i \in 1..n |-> Line(i)]

\* ''.join(ret_list)
RECURSIVE Join(_)
Join(lst) == IF lst = <<>> THEN <<>> ELSE Head(lst) \o Join(Tail(lst))

\* Queue() if max_line is None else Queue(max_line): the queue's maxsize
MaxsizeUnbounded(ml) == 0
Maxsize(ml) == IF ml = None THEN 0 ELSE ml[1]

\* Queue.full(): 0 < maxsize == qsize
FullOffByOne(q, maxsize) == maxsize > 0 /\ Len(q) >= maxsize - 1
Full(q, maxsize) == maxsize > 0 /\ Len(q) = maxsize

\* Queue.get_nowait() on a non-empty queue: FIFO
GetLifo(q) == [item |-> q[Len(q)], rest |-> SubSeq(q, 1, Len(q) - 1)]
Get(q) == [item |-> Head(q), rest |-> Tail(q)]

\* Queue.put_nowait(x) on a queue that is not full
PutFront(q, x) == <<x>> \o q
Put(q, x) == Append(q, x)

\* self._proc: None before the spawn, else the Popen object, of which the
\* model keeps whether the process is alive and its exit status
NoProc == [spawned |-> FALSE, alive |-> FALSE, returncode |-> 0]
Running == [spawned |-> TRUE, alive |-> TRUE, returncode |-> 0]
Exited(code) == [spawned |-> TRUE, alive |-> FALSE, returncode |-> code]

\* proc_handler.proc.poll() is not None
TerminatedInverted(p) == p.alive
Terminated(p) == ~p.alive

\* Queue(MAX_PROCS): the maxsize of the registry queue and of new_queue
ProcsOffByOne == MAX_PROCS + 1
ProcsMaxsize == MAX_PROCS

\* run() begins with self._append_proc_handler(), whose first statement is
\* the full() check of line 111
RunEntrySpawn == "spawn"
RunEntry == "admit_full"

\* subprocess.PIPE, a file object given by the caller, and the value before
\* run() has prepared its kwargs
PIPE == "PIPE"
File == "file"
NoStdout == "unset"

\* line 80: 'stdout': kwargs.get('stdout', subprocess.PIPE)
Stdout(capture) == IF capture THEN PIPE ELSE File

\* line 187: if kwargs.get('stdout') == subprocess.PIPE
StartsReaderAlways(out) == TRUE
StartsReader(out) == out = PIPE

\* proc_handler.proc is not None and proc_handler.proc.poll() is None
\* (line 319): the reaper kills the handlers that have a running process
StillRunningAll(p) == p.spawned
StillRunning(p) == p.spawned /\ ~Terminated(p)

\* How a poll() or kill() call ended: the value it returned (None or an
\* exit code <<n>>) or the exception it raised; NoCall before any call
NoCall == [h |-> 0, exc |-> "never", val |-> None]
ReturnedChecked(h, v) ==
  IF v \in {None, <<0>>} THEN [h |-> h, exc |-> "none", val |-> v]
  ELSE [h |-> h, exc |-> "ExeExitcodeException", val |-> None]
Returned(h, v) == [h |-> h, exc |-> "none", val |-> v]
Raised(h, e) == [h |-> h, exc |-> e, val |-> None]

\* Popen.poll(): None while the process runs, else its exit status
PollValueStale(p) == None
PollValue(p) == IF p.alive THEN None ELSE <<p.returncode>>

\* A command is a string (its characters) or a list of strings
Str(chars) == [type |-> "str", chars |-> chars, items |-> <<>>]
List(items) == [type |-> "list", chars |-> <<>>, items |-> items]
NoCommand == List(<<>>)
SP == " "

\* str.split(' '): a word ends at every single space
RECURSIVE SplitEveryFrom(_, _)
SplitEveryFrom(chars, word) ==
  IF chars = <<>>
    THEN <<word>>
  ELSE IF Head(chars) = SP
    THEN <<word>> \o SplitEveryFrom(Tail(chars), <<>>)
  ELSE SplitEveryFrom(Tail(chars), Append(word, Head(chars)))

\* str.split(): the maximal runs of non-whitespace characters, in order
RECURSIVE SplitFrom(_, _)
SplitFrom(chars, word) ==
  IF chars = <<>>
    THEN IF word = <<>> THEN <<>> ELSE <<word>>
  ELSE IF Head(chars) = SP
    THEN (IF word = <<>> THEN <<>> ELSE <<word>>)
           \o SplitFrom(Tail(chars), <<>>)
  ELSE SplitFrom(Tail(chars), Append(word, Head(chars)))

SplitEvery(chars) == SplitEveryFrom(chars, <<>>)
Split(chars) == SplitFrom(chars, <<>>)

\* lines 246-250: without shell mode a string command is split
Prepare(cmd, sh) ==
  IF ~sh /\ cmd.type = "str" THEN List(Split(cmd.chars)) ELSE cmd

\* A tuple command, as isinstance(command, (list, tuple)) of line 183 sees
Tuple(items) == [type |-> "tuple", chars |-> <<>>, items |-> items]

\* subprocess.STDOUT, and line 21: ON_POSIX on a POSIX host
STDOUT == "STDOUT"
ON_POSIX == TRUE

\* The keyword arguments of run(): each key is absent (<<>>) or has the
\* value v (<<v>>).  NoKwargs is run(command) with no keyword argument.
Absent == <<>>
NoKwargs == [stdout |-> Absent, stderr |-> Absent, bufsize |-> Absent,
             close_fds |-> Absent, shell |-> Absent]

\* kwargs.get(key, default)
KwargsGet(value, default) == IF value = Absent THEN default ELSE value[1]

\* _override_kwargs if it set every key of override_values itself
OverrideKwargsForced(kw) ==
  [kw EXCEPT !.stdout = <<PIPE>>,
             !.stderr = <<STDOUT>>,
             !.bufsize = <<1>>,
             !.close_fds = <<ON_POSIX>>]

\* lines 71-86: _override_kwargs: kwargs.update(override_values)
OverrideKwargs(kw) ==
  [kw EXCEPT !.stdout = <<KwargsGet(kw.stdout, PIPE)>>,
             !.stderr = <<KwargsGet(kw.stderr, STDOUT)>>,
             !.bufsize = <<1>>,
             !.close_fds = <<ON_POSIX>>]

\* line 184: 'shell' in kwargs and kwargs['shell']
ShellMode(kw) == kw.shell # Absent /\ kw.shell[1]

\* lines 182-184: the command Popen is given
PopenCommand(cmd, kw) ==
  IF cmd.type \in {"list", "tuple"} \/ ShellMode(kw)
    THEN cmd
    ELSE List(Split(cmd.chars))

\* subprocess.Popen has not been called
NoPopen == <<>>

\* lines 267, and check_output's "if retcode": a non-zero exit status
FailedNever(code) == FALSE
Failed(code) == code # 0

\* How block_run ended: the value it returned or the exception it raised,
\* with the fields of ExeExitcodeException (exception.py lines 30-34)
NoResult == [kind |-> "none", exc |-> "none", command |-> NoCommand,
             exitcode |-> 0, output |-> <<>>]
Return(out) == [kind |-> "return", exc |-> "none", command |-> NoCommand,
                exitcode |-> 0, output |-> out]
Propagate(e) == [kind |-> "raise", exc |-> e, command |-> NoCommand,
                 exitcode |-> 0, output |-> <<>>]
ExeExitcodeException(cmd, code, out) ==
  [kind |-> "raise", exc |-> "ExeExitcodeException", command |-> cmd,
   exitcode |-> code, output |-> out]

\* ------------------------------------------------ the spawned processes
\* The process of handler h exits with the given exit code; its end of the
\* stdout pipe is closed.
ProcExit(h, code) ==
  /\ proc[h].alive
  /\ proc' = [proc EXCEPT ![h] = Exited(code)]
  /\ quiet' = (quiet /\ pc[MainThread] \in {"idle", "spawn"})
  /\ UNCHANGED <<ovars, avars, bvars, cvars,
                 procs, thread, stdout, created, pc, self, new_queue,
                 outcome, exiting, tpc, pre>>

\* ------------------------------------------------------------ SpecOutput
\* The state right after run() returned with stdout captured: the process
\* is running, the reader thread has been started, nothing is buffered.
InitOutput ==
  /\ max_line \in {None} \cup {<<n>> : n \in 0..MaxCap}
  /\ output_queue = <<>>
  /\ written = 0
  /\ nread = 0
  /\ rpc = "readline"
  /\ line = NoLine
  /\ stdout_closed = FALSE
  /\ cpc = [c \in Consumers |-> "idle"]
  /\ ret_list = [c \in Consumers |-> <<>>]
  /\ enqueued = <<>>
  /\ evicted = {}
  /\ returned = [c \in Consumers |-> <<>>]
  /\ called = FALSE
  /\ first = [c \in Consumers |-> FALSE]
  /\ noNew = [c \in Consumers |-> FALSE]
  /\ drained = FALSE
  /\ seen = {}
  /\ procs = <<Observed>>
  /\ proc = [h \in Handlers |-> IF h = Observed THEN Running ELSE NoProc]
  /\ thread = [h \in Handlers |-> IF h = Observed THEN 1 ELSE 0]
  /\ stdout = [h \in Handlers |-> IF h = Observed THEN PIPE ELSE NoStdout]
  /\ created = 1
  /\ pc = [t \in Threads |-> "idle"]
  /\ self = [t \in Threads |-> IF t = MainThread THEN Observed ELSE 0]
  /\ new_queue = [t \in Threads |-> <<>>]
  /\ outcome = [t \in Threads |-> IF t = MainThread THEN "ok" ELSE "none"]
  /\ exiting = FALSE
  /\ tpc = "off"
  /\ pre = <<>>
  /\ quiet = TRUE
  /\ killed = [h \in Handlers |-> FALSE]
  /\ polled = NoCall
  /\ py27 = TRUE
  /\ bpc = "off"
  /\ given = NoCommand
  /\ command = NoCommand
  /\ shell = FALSE
  /\ output = <<>>
  /\ bresult = NoResult
  /\ kwargs = NoKwargs
  /\ _command = NoCommand
  /\ popen = NoPopen

\* The command writes one more line to its stdout.
ProcWrite ==
  /\ proc[Observed].alive /\ written < MaxLines
  /\ written' = written + 1
  /\ UNCHANGED <<max_line, output_queue, nread, rpc, line,
                 stdout_closed, cpc, ret_list, enqueued, evicted, returned,
                 called,
                 first, noNew, drained, seen,
                 rvars, avars, bvars, cvars>>

\* line 90: for line in iter(self.proc.stdout.readline, b'')
\* readline blocks until a line is available or the stream has ended.
ReaderReadline ==
  /\ rpc = "readline"
  /\ \/ /\ nread < written
        /\ nread' = nread + 1
        /\ line' = Line(nread + 1)
        /\ rpc' = "full"
     \/ /\ nread = written /\ ~proc[Observed].alive
        /\ rpc' = "close"
        /\ UNCHANGED <<nread, line>>
  /\ UNCHANGED <<max_line, output_queue, written, stdout_closed,
                 cpc, ret_list, enqueued, evicted, returned, called,
                 first, noNew, drained, seen,
                 rvars, avars, bvars, cvars>>

\* line 91: if self._output_queue.full()
ReaderFull ==
  /\ rpc = "full"
  /\ rpc' = IF Full(output_queue, Maxsize(max_line)) THEN "get" ELSE "put"
  /\ UNCHANGED <<max_line, output_queue, written, nread, line,
                 stdout_closed, cpc, ret_list, enqueued, evicted, returned,
                 called,
                 first, noNew, drained, seen,
                 rvars, avars, bvars, cvars>>

\* line 93: self._output_queue.get_nowait(); Empty is not caught, so it
\* ends the thread.
ReaderGet ==
  /\ rpc = "get"
  /\ IF output_queue = <<>>
       THEN /\ rpc' = "dead"
            /\ line' = NoLine
            /\ UNCHANGED <<output_queue, evicted>>
       ELSE /\ output_queue' = Get(output_queue).rest
            /\ evicted' = evicted \cup {Get(output_queue).item}
            /\ rpc' = "put"
            /\ UNCHANGED line
  /\ UNCHANGED <<max_line, written, nread, stdout_closed, cpc,
                 ret_list, enqueued, returned, called,
                 first, noNew, drained, seen,
                 rvars, avars, bvars, cvars>>

\* line 94: self._output_queue.put_nowait(line); Full is not caught.
ReaderPut ==
  /\ rpc = "put"
  /\ IF Maxsize(max_line) > 0 /\ Len(output_queue) = Maxsize(max_line)
       THEN /\ rpc' = "dead"
            /\ UNCHANGED <<output_queue, enqueued, noNew, drained>>
       ELSE /\ output_queue' = Put(output_queue, line)
            /\ enqueued' = Append(enqueued, line)
            /\ noNew' = [c \in Consumers |-> FALSE]
            /\ drained' = FALSE
            /\ rpc' = "readline"
  /\ line' = NoLine
  /\ UNCHANGED <<max_line, written, nread, stdout_closed, cpc,
                 ret_list, evicted, returned, called, first, seen,
                 rvars, avars, bvars, cvars>>

\* line 96: self.proc.stdout.close(), then the thread ends.
ReaderClose ==
  /\ rpc = "close"
  /\ stdout_closed' = TRUE
  /\ rpc' = "done"
  /\ UNCHANGED <<max_line, output_queue, written, nread, line, cpc,
                 ret_list, enqueued, evicted, returned, called,
                 first, noNew, drained, seen,
                 rvars, avars, bvars, cvars>>

\* lines 215-216: a caller enters get_output; ret_list = []
\* first[c]: the call begins after the process has exited and the reader
\* has ended, no call began before it and none overlaps it.  noNew[c]: the
\* call begins after another call returned, and no line was enqueued since.
GetOutputCall(c) ==
  /\ cpc[c] = "idle"
  /\ cpc' = [cpc EXCEPT ![c] = "loop"]
  /\ ret_list' = [ret_list EXCEPT ![c] = <<>>]
  /\ called' = TRUE
  /\ first' = [d \in Consumers |->
                /\ d = c
                /\ ~called /\ rpc = "done" /\ ~proc[Observed].alive]
  /\ noNew' = [noNew EXCEPT ![c] = drained]
  /\ UNCHANGED <<max_line, output_queue, written, nread, rpc, line,
                 stdout_closed, enqueued, evicted, returned, drained, seen,
                 rvars, avars, bvars, cvars>>

\* lines 218-224: one turn of the loop: get_nowait(), then either append
\* the line or, on Empty, return ''.join(ret_list)
GetOutputStep(c) ==
  /\ cpc[c] = "loop"
  /\ IF output_queue = <<>>
       THEN /\ cpc' = [cpc EXCEPT ![c] = "idle"]
            /\ returned' = [returned EXCEPT ![c] = @ \o ret_list[c]]
            /\ ret_list' = [ret_list EXCEPT ![c] = <<>>]
            /\ seen' = seen \cup {k \in {"first", "noNew"} :
                                   \/ k = "first" /\ first[c]
                                   \/ k = "noNew" /\ noNew[c]}
            /\ first' = [first EXCEPT ![c] = FALSE]
            /\ noNew' = [noNew EXCEPT ![c] = FALSE]
            /\ drained' = TRUE
            /\ UNCHANGED output_queue
       ELSE /\ output_queue' = Get(output_queue).rest
            /\ ret_list' = [ret_list EXCEPT ![c] =
                             Append(@, Get(output_queue).item)]
            /\ UNCHANGED <<cpc, returned, first, noNew, drained, seen>>
  /\ UNCHANGED <<max_line, written, nread, rpc, line, stdout_closed,
                 enqueued, evicted, called,
                 rvars, avars, bvars, cvars>>

NextOutput ==
  \/ ProcWrite
  \/ \E code \in ExitCodes : ProcExit(Observed, code)
  \/ ReaderReadline
  \/ ReaderFull
  \/ ReaderGet
  \/ ReaderPut
  \/ ReaderClose
  \/ \E c \in Consumers : GetOutputCall(c)
  \/ \E c \in Consumers : GetOutputStep(c)

SpecOutput == InitOutput /\ [][NextOutput]_vars

\* ---------------------------------------------------- Spec and SpecSeq
\* The state after the module is imported: the registry is empty and no
\* ProcessHandler exists.
Init ==
  /\ max_line = None
  /\ output_queue = <<>>
  /\ written = 0
  /\ nread = 0
  /\ rpc = "unstarted"
  /\ line = NoLine
  /\ stdout_closed = FALSE
  /\ cpc = [c \in Consumers |-> "idle"]
  /\ ret_list = [c \in Consumers |-> <<>>]
  /\ enqueued = <<>>
  /\ evicted = {}
  /\ returned = [c \in Consumers |-> <<>>]
  /\ called = FALSE
  /\ first = [c \in Consumers |-> FALSE]
  /\ noNew = [c \in Consumers |-> FALSE]
  /\ drained = FALSE
  /\ seen = {}
  /\ procs = <<>>
  /\ proc = [h \in Handlers |-> NoProc]
  /\ thread = [h \in Handlers |-> 0]
  /\ stdout = [h \in Handlers |-> NoStdout]
  /\ created = 0
  /\ pc = [t \in Threads |-> "idle"]
  /\ self = [t \in Threads |-> 0]
  /\ new_queue = [t \in Threads |-> <<>>]
  /\ outcome = [t \in Threads |-> "none"]
  /\ exiting = FALSE
  /\ tpc = "off"
  /\ pre = <<>>
  /\ quiet = TRUE
  /\ killed = [h \in Handlers |-> FALSE]
  /\ polled = NoCall
  /\ py27 = TRUE
  /\ bpc = "off"
  /\ given = NoCommand
  /\ command = NoCommand
  /\ shell = FALSE
  /\ output = <<>>
  /\ bresult = NoResult
  /\ kwargs = NoKwargs
  /\ _command = NoCommand
  /\ popen = NoPopen

\* An exception leaves run(): the call ends with that exception.
Raise(t, exc) ==
  /\ pc' = [pc EXCEPT ![t] = "idle"]
  /\ outcome' = [outcome EXCEPT ![t] = exc]

\* The history of the main thread's admission is dropped when it ends
Forget(t) ==
  /\ pre' = IF t = MainThread THEN <<>> ELSE pre
  /\ quiet' = IF t = MainThread THEN TRUE ELSE quiet

\* lines 285-303, 150-175: run(command) constructs a ProcessHandler and
\* calls its run(), which begins with the admission.  The main thread calls
\* nothing once the interpreter is exiting.
RunCall(t) ==
  /\ pc[t] = "idle"
  /\ t = MainThread => ~exiting
  /\ created < NHandlers
  /\ created' = created + 1
  /\ self' = [self EXCEPT ![t] = created + 1]
  /\ pc' = [pc EXCEPT ![t] = RunEntry]
  /\ outcome' = [outcome EXCEPT ![t] = "none"]
  /\ new_queue' = [new_queue EXCEPT ![t] = <<>>]
  /\ pre' = IF t = MainThread THEN procs ELSE pre
  /\ quiet' = IF t = MainThread THEN TRUE ELSE quiet
  /\ UNCHANGED <<ovars, avars, bvars, cvars,
                 procs, proc, thread, stdout, exiting, tpc>>

\* line 111: if not ProcessHandler.procs.full()
AdmitFull(t) ==
  /\ pc[t] = "admit_full"
  /\ pc' = [pc EXCEPT ![t] =
             IF Full(procs, ProcsMaxsize) THEN "compact_new" ELSE "admit_put"]
  /\ UNCHANGED <<ovars, avars, bvars, cvars,
                 procs, proc, thread, stdout, created, self, new_queue,
                 outcome, exiting, tpc, pre, quiet>>

\* lines 112-113: ProcessHandler.procs.put(self); return.  put() blocks
\* while the queue is full.
AdmitPut(t) ==
  /\ pc[t] = "admit_put"
  /\ ~Full(procs, ProcsMaxsize)
  /\ procs' = Put(procs, self[t])
  /\ pc' = [pc EXCEPT ![t] = "spawn"]
  /\ Forget(t)
  /\ UNCHANGED <<ovars, avars, bvars, cvars,
                 proc, thread, stdout, created, self, new_queue, outcome,
                 exiting, tpc>>

\* line 120: new_queue = Queue(MAX_PROCS)
CompactNew(t) ==
  /\ pc[t] = "compact_new"
  /\ new_queue' = [new_queue EXCEPT ![t] = <<>>]
  /\ pc' = [pc EXCEPT ![t] = "compact_empty"]
  /\ UNCHANGED <<ovars, avars, bvars, cvars,
                 procs, proc, thread, stdout, created, self, outcome,
                 exiting, tpc, pre, quiet>>

\* line 125: while not ProcessHandler.procs.empty()
CompactEmpty(t) ==
  /\ pc[t] = "compact_empty"
  /\ pc' = [pc EXCEPT ![t] =
             IF procs = <<>> THEN "compact_swap" ELSE "compact_get"]
  /\ UNCHANGED <<ovars, avars, bvars, cvars,
                 procs, proc, thread, stdout, created, self, new_queue,
                 outcome, exiting, tpc, pre, quiet>>

\* lines 126-136: proc_handler = ProcessHandler.procs.get(), which blocks
\* while the queue is empty; proc_handler.proc.poll() raises AttributeError
\* when proc_handler.proc is None; a terminated handler is dropped, a
\* running one goes into new_queue, whose put() blocks when it is full.
CompactGet(t) ==
  /\ pc[t] = "compact_get"
  /\ procs # <<>>
  /\ LET proc_handler == Get(procs).item IN
       /\ procs' = Get(procs).rest
       /\ IF ~proc[proc_handler].spawned
            THEN /\ Raise(t, "AttributeError")
                 /\ Forget(t)
                 /\ new_queue' = [new_queue EXCEPT ![t] = <<>>]
            ELSE IF Terminated(proc[proc_handler])
            THEN /\ pc' = [pc EXCEPT ![t] = "compact_empty"]
                 /\ UNCHANGED <<new_queue, outcome, pre, quiet>>
            ELSE /\ ~Full(new_queue[t], ProcsMaxsize)
                 /\ new_queue' = [new_queue EXCEPT ![t] =
                                    Put(@, proc_handler)]
                 /\ pc' = [pc EXCEPT ![t] = "compact_empty"]
                 /\ UNCHANGED <<outcome, pre, quiet>>
  /\ UNCHANGED <<ovars, avars, bvars, cvars,
                 proc, thread, stdout, created, self, exiting, tpc>>

\* line 139: ProcessHandler.procs = new_queue.  From here on the local
\* name new_queue is another name of the registry and is not used again.
CompactSwap(t) ==
  /\ pc[t] = "compact_swap"
  /\ procs' = new_queue[t]
  /\ new_queue' = [new_queue EXCEPT ![t] = <<>>]
  /\ pc' = [pc EXCEPT ![t] = "compact_full"]
  /\ UNCHANGED <<ovars, avars, bvars, cvars,
                 proc, thread, stdout, created, self, outcome, exiting, tpc,
                 pre, quiet>>

\* lines 141-144: if ProcessHandler.procs.full(): raise ExeException
CompactFull(t) ==
  /\ pc[t] = "compact_full"
  /\ IF Full(procs, ProcsMaxsize)
       THEN /\ Raise(t, "ExeException")
            /\ Forget(t)
       ELSE /\ pc' = [pc EXCEPT ![t] = "compact_put"]
            /\ UNCHANGED <<outcome, pre, quiet>>
  /\ UNCHANGED <<ovars, avars, bvars, cvars,
                 procs, proc, thread, stdout, created, self, new_queue,
                 exiting, tpc>>

\* lines 146-148: ProcessHandler.procs.put(self); return True
CompactPut(t) ==
  /\ pc[t] = "compact_put"
  /\ ~Full(procs, ProcsMaxsize)
  /\ procs' = Put(procs, self[t])
  /\ pc' = [pc EXCEPT ![t] = "spawn"]
  /\ Forget(t)
  /\ UNCHANGED <<ovars, avars, bvars, cvars,
                 proc, thread, stdout, created, self, new_queue, outcome,
                 exiting, tpc>>

\* lines 177-188: subprocess.Popen(command, **kwargs) either spawns the
\* command or raises OSError (missing executable, permission denied); the
\* reader thread is started when kwargs['stdout'] is subprocess.PIPE, the
\* default, which the caller may override (capture is FALSE then).
Spawn(t, capture) ==
  /\ pc[t] = "spawn"
  /\ stdout' = [stdout EXCEPT ![self[t]] = Stdout(capture)]
  /\ \/ /\ proc' = [proc EXCEPT ![self[t]] = Running]
        /\ thread' = [thread EXCEPT ![self[t]] =
                        IF StartsReader(Stdout(capture)) THEN @ + 1 ELSE @]
        /\ pc' = [pc EXCEPT ![t] = "idle"]
        /\ outcome' = [outcome EXCEPT ![t] = "ok"]
     \/ /\ Raise(t, "OSError")
        /\ UNCHANGED <<proc, thread>>
  /\ UNCHANGED <<ovars, avars, bvars, cvars,
                 procs, created, self, new_queue, exiting, tpc,
                 pre, quiet>>

\* line 307: @atexit.register runs once, when the module is imported, and
\* puts _terminate on atexit's list; the exiting interpreter takes each
\* function off that list as it calls it.
RegisteredForever == TRUE
Registered == ~exiting

\* The interpreter starts its termination sequence when the main thread
\* has ended: atexit calls _terminate (lines 307-308).  Daemon threads
\* keep running.
ReaperStart ==
  /\ Registered
  /\ pc[MainThread] = "idle"
  /\ exiting' = TRUE
  /\ tpc' = "empty"
  /\ UNCHANGED <<ovars, avars, bvars, cvars,
                 procs, proc, thread, stdout, created, pc, self, new_queue,
                 outcome, pre, quiet>>

\* Queue.empty()
EmptyOffByOne(q) == Len(q) <= 1
Empty(q) == q = <<>>

\* line 317: while not ProcessHandler.procs.empty(); tpc is "again" when a
\* later run of _terminate is at its first test of the loop.
ReaperEmpty ==
  /\ tpc \in {"empty", "again"}
  /\ tpc' = IF Empty(procs) THEN "done" ELSE "get"
  /\ UNCHANGED <<ovars, avars, bvars, cvars,
                 procs, proc, thread, stdout, created, pc, self, new_queue,
                 outcome, exiting, pre, quiet>>

\* lines 318-321: proc_handler = ProcessHandler.procs.get() (blocking); a
\* handler that has a process which is still running is sent SIGKILL and
\* polled; the value of that poll() is dropped.
ReaperGet ==
  /\ tpc = "get"
  /\ procs # <<>>
  /\ LET proc_handler == Get(procs).item IN
       /\ procs' = Get(procs).rest
       /\ killed' = IF StillRunning(proc[proc_handler])
                      THEN [killed EXCEPT ![proc_handler] = TRUE]
                      ELSE killed
  /\ tpc' = "empty"
  /\ UNCHANGED <<ovars, bvars, cvars, polled,
                 proc, thread, stdout, created, pc, self, new_queue, outcome,
                 exiting, pre, quiet>>

\* A process that was sent SIGKILL dies of it.
KillTakesEffect(h) ==
  /\ killed[h]
  /\ ProcExit(h, -SIGKILL)

\* lines 203-213: poll() on a handler the caller holds; self.proc.poll()
\* raises AttributeError while self.proc is None.
PollCall(h) ==
  /\ pc[MainThread] = "idle" /\ ~exiting
  /\ h \in 1..created
  /\ polled' = IF proc[h].spawned THEN Returned(h, PollValue(proc[h]))
               ELSE Raised(h, "AttributeError")
  /\ UNCHANGED <<ovars, rvars, bvars, cvars, killed>>

\* lines 190-201: kill(): self.proc.kill() sends SIGKILL and returns at
\* once; the poll() after it sees the process still running, or already
\* dead of the signal.  os.kill() on a process that has already exited
\* raises OSError when the process was reaped, else does nothing.
KillCall(h) ==
  /\ pc[MainThread] = "idle" /\ ~exiting
  /\ h \in 1..created
  /\ IF ~proc[h].spawned
       THEN /\ polled' = Raised(h, "AttributeError")
            /\ UNCHANGED <<proc, killed, quiet>>
       ELSE IF proc[h].alive
       THEN /\ killed' = [killed EXCEPT ![h] = TRUE]
            /\ \/ /\ polled' = Returned(h, None)
                  /\ UNCHANGED <<proc, quiet>>
               \/ /\ proc' = [proc EXCEPT ![h] = Exited(-SIGKILL)]
                  /\ polled' = Returned(h, PollValue(Exited(-SIGKILL)))
                  /\ UNCHANGED quiet
       ELSE /\ \/ polled' = Returned(h, PollValue(proc[h]))
               \/ polled' = Raised(h, "OSError")
            /\ UNCHANGED <<proc, killed, quiet>>
  /\ UNCHANGED <<ovars, bvars, cvars, procs, thread, stdout, created, pc,
                 self,
                 new_queue, outcome, exiting, tpc, pre>>

\* Threads call run() concurrently.  The registry reads neither exit codes
\* nor the stdout argument: here commands exit with 0 and callers keep the
\* default stdout.
Next ==
  \/ \E h \in Handlers : ProcExit(h, 0)
  \/ \E t \in Threads : RunCall(t)
  \/ \E t \in Threads : AdmitFull(t)
  \/ \E t \in Threads : AdmitPut(t)
  \/ \E t \in Threads : CompactNew(t)
  \/ \E t \in Threads : CompactEmpty(t)
  \/ \E t \in Threads : CompactGet(t)
  \/ \E t \in Threads : CompactSwap(t)
  \/ \E t \in Threads : CompactFull(t)
  \/ \E t \in Threads : CompactPut(t)
  \/ \E t \in Threads : Spawn(t, TRUE)
  \/ ReaperStart
  \/ ReaperEmpty
  \/ ReaperGet
  \/ \E h \in Handlers : KillTakesEffect(h)

Spec == Init /\ [][Next]_vars

\* One step of thread t inside run()
RunStep(t) ==
  \/ AdmitFull(t)
  \/ AdmitPut(t)
  \/ CompactNew(t)
  \/ CompactEmpty(t)
  \/ CompactGet(t)
  \/ CompactSwap(t)
  \/ CompactFull(t)
  \/ CompactPut(t)
  \/ Spawn(t, TRUE)

\* Spec with a fair scheduler: a thread inside run() that can take a step
\* takes it, and the exiting interpreter runs _terminate.  Nothing obliges
\* a caller to call run() again nor a command to exit.
SpecFair ==
  /\ Init /\ [][Next]_vars
  /\ \A t \in Threads : WF_vars(RunStep(t))
  /\ WF_vars(ReaperStart \/ ReaperEmpty \/ ReaperGet)

\* Only the main thread calls run(): the calls follow one another.
NextSeq ==
  \/ \E h \in Handlers, code \in ExitCodes : ProcExit(h, code)
  \/ RunCall(MainThread)
  \/ AdmitFull(MainThread)
  \/ AdmitPut(MainThread)
  \/ CompactNew(MainThread)
  \/ CompactEmpty(MainThread)
  \/ CompactGet(MainThread)
  \/ CompactSwap(MainThread)
  \/ CompactFull(MainThread)
  \/ CompactPut(MainThread)
  \/ \E capture \in BOOLEAN : Spawn(MainThread, capture)
  \/ ReaperStart
  \/ ReaperEmpty
  \/ ReaperGet
  \/ \E h \in Handlers : KillTakesEffect(h)

SpecSeq == Init /\ [][NextSeq]_vars

\* The state after n <= MAX_PROCS run() calls of the main thread on an
\* empty registry: every handler was registered (lines 111-113), and then
\* its command was spawned or Popen raised OSError.
InitHeld(n) ==
  /\ max_line = None
  /\ output_queue = <<>>
  /\ written = 0
  /\ nread = 0
  /\ rpc = "unstarted"
  /\ line = NoLine
  /\ stdout_closed = FALSE
  /\ cpc = [c \in Consumers |-> "idle"]
  /\ ret_list = [c \in Consumers |-> <<>>]
  /\ enqueued = <<>>
  /\ evicted = {}
  /\ returned = [c \in Consumers |-> <<>>]
  /\ called = FALSE
  /\ first = [c \in Consumers |-> FALSE]
  /\ noNew = [c \in Consumers |-> FALSE]
  /\ drained = FALSE
  /\ seen = {}
  /\ procs = [i \in 1..n |-> i]
  /\ proc \in [Handlers -> {NoProc, Running}]
  /\ \A h \in Handlers : h > n => proc[h] = NoProc
  /\ thread = [h \in Handlers |-> IF proc[h].spawned THEN 1 ELSE 0]
  /\ stdout = [h \in Handlers |-> IF h <= n THEN PIPE ELSE NoStdout]
  /\ created = n
  /\ pc = [t \in Threads |-> "idle"]
  /\ self = [t \in Threads |-> IF t = MainThread THEN n ELSE 0]
  /\ new_queue = [t \in Threads |-> <<>>]
  /\ outcome = [t \in Threads |->
                  IF t # MainThread THEN "none"
                  ELSE IF proc[n].spawned THEN "ok" ELSE "OSError"]
  /\ exiting = FALSE
  /\ tpc = "off"
  /\ pre = <<>>
  /\ quiet = TRUE
  /\ killed = [h \in Handlers |-> FALSE]
  /\ polled = NoCall
  /\ py27 = TRUE
  /\ bpc = "off"
  /\ given = NoCommand
  /\ command = NoCommand
  /\ shell = FALSE
  /\ output = <<>>
  /\ bresult = NoResult
  /\ kwargs = NoKwargs
  /\ _command = NoCommand
  /\ popen = NoPopen

\* One slot of the registry is free
InitApi == InitHeld(MAX_PROCS - 1)

\* line 320: proc_handler.proc.kill() fails: os.kill raises OSError when
\* the caller may not signal the process (a command running with other
\* credentials) or the process is gone.  Nothing in _terminate catches it:
\* the exception ends the hook.
ReaperKillFails ==
  /\ tpc = "get"
  /\ procs # <<>>
  /\ StillRunning(proc[Get(procs).item])
  /\ procs' = Get(procs).rest
  /\ tpc' = "raised"
  /\ UNCHANGED <<ovars, avars, bvars, cvars,
                 proc, thread, stdout, created, pc, self, new_queue, outcome,
                 exiting, pre, quiet>>

\* The registry when only the main thread calls run(), in an environment
\* where a kill attempt may fail.
NextReap ==
  \/ NextSeq
  \/ ReaperKillFails

SpecReap == Init /\ [][NextReap]_vars

\* lines 307-308: _terminate is an ordinary module function (the decorator
\* atexit.register returns it unchanged): it is called once more after it
\* has ended.
TerminateAgain ==
  /\ tpc = "done"
  /\ tpc' = "again"
  /\ UNCHANGED <<ovars, avars, bvars, cvars,
                 procs, proc, thread, stdout, created, pc, self, new_queue,
                 outcome, exiting, pre, quiet>>

\* SpecSeq where _terminate may be run again after the exit has run it
NextTwice ==
  \/ NextSeq
  \/ TerminateAgain

SpecTwice == Init /\ [][NextTwice]_vars

\* The main thread calls run(), and poll() and kill() on the handlers it
\* holds, one call after the other, while the processes run and exit.
NextApi ==
  \/ \E h \in Handlers, code \in ExitCodes : ProcExit(h, code)
  \/ RunCall(MainThread)
  \/ AdmitFull(MainThread)
  \/ AdmitPut(MainThread)
  \/ CompactNew(MainThread)
  \/ CompactEmpty(MainThread)
  \/ CompactGet(MainThread)
  \/ CompactSwap(MainThread)
  \/ CompactFull(MainThread)
  \/ CompactPut(MainThread)
  \/ Spawn(MainThread, TRUE)
  \/ \E h \in Handlers : KillTakesEffect(h)
  \/ \E h \in Handlers : PollCall(h)
  \/ \E h \in Handlers : KillCall(h)

SpecApi == InitApi /\ [][NextApi]_vars

\* The main thread calls poll() and kill() on the handlers of a full
\* registry.  SIGKILL cannot be caught or ignored: a process it was sent
\* to dies; and the caller keeps polling each handler.
InitKill == InitHeld(MAX_PROCS)

NextKill ==
  \/ \E h \in Handlers, code \in ExitCodes : ProcExit(h, code)
  \/ \E h \in Handlers : KillTakesEffect(h)
  \/ \E h \in Handlers : PollCall(h)
  \/ \E h \in Handlers : KillCall(h)

SpecKill ==
  /\ InitKill /\ [][NextKill]_vars
  /\ \A h \in Handlers : WF_vars(KillTakesEffect(h))
  /\ \A h \in Handlers : WF_vars(PollCall(h))

\* ------------------------------------------------------------ SpecBlock
\* The commands given to block_run, and the processes of the registry
\* before the call
Commands == {Str(<<"a", SP, SP, "b">>), List(<<<<"a">>, <<"b">>>>)}
PriorProcs == {NoProc, Running, Exited(0)}

\* The state in which the main thread calls block_run: earlier run() calls
\* have left n <= MAX_PROCS handlers in the registry, each running, exited
\* or without a process (failed spawn).  The identity Observed is set aside
\* for the handler that block_run's polling path constructs, or for the
\* Popen object of check_output.
InitBlock ==
  /\ max_line = None
  /\ output_queue = <<>>
  /\ written = 0
  /\ nread = 0
  /\ rpc = "unstarted"
  /\ line = NoLine
  /\ stdout_closed = FALSE
  /\ cpc = [c \in Consumers |-> "idle"]
  /\ ret_list = [c \in Consumers |-> <<>>]
  /\ enqueued = <<>>
  /\ evicted = {}
  /\ returned = [c \in Consumers |-> <<>>]
  /\ called = FALSE
  /\ first = [c \in Consumers |-> FALSE]
  /\ noNew = [c \in Consumers |-> FALSE]
  /\ drained = FALSE
  /\ seen = {}
  /\ \E n \in 0..MAX_PROCS :
       /\ n + 1 <= NHandlers
       /\ procs = [i \in 1..n |-> i + 1]
       /\ created = n + 1
       /\ proc \in [Handlers -> PriorProcs]
       /\ \A h \in Handlers : (h = Observed \/ h > n + 1) => proc[h] = NoProc
  /\ thread = [h \in Handlers |-> IF proc[h].spawned THEN 1 ELSE 0]
  /\ stdout = [h \in Handlers |->
                 IF h # Observed /\ h <= Len(procs) + 1 THEN PIPE
                 ELSE NoStdout]
  /\ pc = [t \in Threads |-> "idle"]
  /\ self = [t \in Threads |-> 0]
  /\ new_queue = [t \in Threads |-> <<>>]
  /\ outcome = [t \in Threads |-> "none"]
  /\ exiting = FALSE
  /\ tpc = "off"
  /\ pre = <<>>
  /\ quiet = TRUE
  /\ killed = [h \in Handlers |-> FALSE]
  /\ polled = NoCall
  /\ py27 \in BOOLEAN
  /\ bpc = "off"
  /\ given = NoCommand
  /\ command = NoCommand
  /\ shell = FALSE
  /\ output = <<>>
  /\ bresult = NoResult
  /\ kwargs = NoKwargs
  /\ _command = NoCommand
  /\ popen = NoPopen

\* lines 227-254: block_run(command, **kwargs)
BlockRunCall(cmd, sh) ==
  /\ bpc = "off"
  /\ pc[MainThread] = "idle" /\ ~exiting
  /\ given' = cmd
  /\ shell' = sh
  /\ command' = Prepare(cmd, sh)
  /\ bpc' = "try"
  /\ UNCHANGED <<ovars, rvars, avars, cvars, py27, output, bresult>>

\* lines 256-260: check_output on Python 2.7, else run(command, **kwargs):
\* ProcessHandler(max_line=None), then ph.run(), which begins with the
\* admission.
BlockTry ==
  /\ bpc = "try"
  /\ IF py27
       THEN /\ bpc' = "co_popen"
            /\ UNCHANGED <<self, pc, outcome, new_queue, pre, quiet>>
       ELSE /\ bpc' = "run"
            /\ self' = [self EXCEPT ![MainThread] = Observed]
            /\ pc' = [pc EXCEPT ![MainThread] = RunEntry]
            /\ outcome' = [outcome EXCEPT ![MainThread] = "none"]
            /\ new_queue' = [new_queue EXCEPT ![MainThread] = <<>>]
            /\ pre' = procs
            /\ quiet' = TRUE
  /\ UNCHANGED <<ovars, avars, cvars, py27, given, command, shell, output,
                 bresult, procs, proc, thread, stdout, created, exiting, tpc>>

\* subprocess.check_output: Popen(stdout=PIPE, ...), which spawns the
\* command or raises OSError; no ProcessHandler is involved.
CoPopen ==
  /\ bpc = "co_popen"
  /\ \/ /\ proc' = [proc EXCEPT ![Observed] = Running]
        /\ bpc' = "co_communicate"
        /\ UNCHANGED bresult
     \/ /\ bresult' = Propagate("OSError")
        /\ bpc' = "done"
        /\ UNCHANGED proc
  /\ UNCHANGED <<ovars, avars, cvars, py27, given, command, shell, output,
                 procs, thread, stdout, created, pc, self, new_queue, outcome,
                 exiting, tpc, pre, quiet>>

\* subprocess.check_output: output, _ = process.communicate() reads the
\* pipe to its end; retcode = process.poll()
CoCommunicate ==
  /\ bpc = "co_communicate"
  /\ ~proc[Observed].alive
  /\ output' = Join(Stream(written))
  /\ bpc' = "co_retcode"
  /\ UNCHANGED <<ovars, rvars, avars, cvars, py27, given, command, shell,
                 bresult>>

\* subprocess.check_output: if retcode: raise CalledProcessError(retcode,
\* cmd, output=output), which lines 274-279 turn into ExeExitcodeException;
\* else return output (lines 258, 280-282)
CoReturn ==
  /\ bpc = "co_retcode"
  /\ bresult' = IF Failed(proc[Observed].returncode)
                  THEN ExeExitcodeException(command,
                                            proc[Observed].returncode, output)
                  ELSE Return(output)
  /\ bpc' = "done"
  /\ UNCHANGED <<ovars, rvars, avars, cvars, py27, given, command, shell, output>>

\* line 260: run() has returned the handler, or an exception of run()
\* leaves block_run (line 274 catches CalledProcessError only)
BlockRunReturned ==
  /\ bpc = "run"
  /\ pc[MainThread] = "idle" /\ outcome[MainThread] # "none"
  /\ IF outcome[MainThread] = "ok"
       THEN /\ bpc' = "poll"
            /\ UNCHANGED bresult
       ELSE /\ bresult' = Propagate(outcome[MainThread])
            /\ bpc' = "done"
  /\ UNCHANGED <<ovars, rvars, avars, cvars, py27, given, command, shell, output>>

\* lines 99-101: the reader thread started by _read_buffer begins to run
ReaderStart ==
  /\ rpc = "unstarted"
  /\ thread[Observed] > 0
  /\ rpc' = "readline"
  /\ UNCHANGED <<max_line, output_queue, written, nread, line,
                 stdout_closed, cpc, ret_list, enqueued, evicted, returned,
                 called, first, noNew, drained, seen,
                 rvars, avars, bvars, cvars>>

\* proc._thread.is_alive()
ReaderAliveNever == FALSE
ReaderAlive == rpc \notin {"done", "dead"}

\* line 262, left operand: proc.poll() is None
BlockPoll ==
  /\ bpc = "poll"
  /\ bpc' = IF PollValue(proc[Observed]) = None THEN "sleep" ELSE "alive"
  /\ UNCHANGED <<ovars, rvars, avars, cvars, py27, given, command, shell, output,
                 bresult>>

\* line 262, right operand: proc._thread.is_alive()
BlockAlive ==
  /\ bpc = "alive"
  /\ bpc' = IF ReaderAlive THEN "sleep" ELSE "get_output"
  /\ UNCHANGED <<ovars, rvars, avars, cvars, py27, given, command, shell, output,
                 bresult>>

\* line 263: time.sleep(0.1)
BlockSleep ==
  /\ bpc = "sleep"
  /\ bpc' = "poll"
  /\ UNCHANGED <<ovars, rvars, avars, cvars, py27, given, command, shell, output,
                 bresult>>

\* line 265: output = proc.get_output(): the call is made by the main
\* thread, caller MainThread of get_output
BlockGetOutput ==
  /\ bpc = "get_output"
  /\ cpc[MainThread] = "idle" /\ ~called
  /\ GetOutputCall(MainThread)

\* line 265: get_output has returned; the value is bound to output
BlockCollect ==
  /\ bpc = "get_output"
  /\ cpc[MainThread] = "idle" /\ called
  /\ output' = Join(returned[MainThread])
  /\ bpc' = "exitcheck"
  /\ UNCHANGED <<ovars, rvars, avars, cvars, py27, given, command, shell, bresult>>

\* lines 267-272, 280-282: if proc.poll() != 0: raise
\* ExeExitcodeException(command, proc.poll(), output); else return output
BlockExitCheck ==
  /\ bpc = "exitcheck"
  /\ bresult' = IF Failed(proc[Observed].returncode)
                  THEN ExeExitcodeException(command,
                                            proc[Observed].returncode, output)
                  ELSE Return(output)
  /\ bpc' = "done"
  /\ UNCHANGED <<ovars, rvars, avars, cvars, py27, given, command, shell, output>>

NextBlock ==
  \/ \E cmd \in Commands, sh \in BOOLEAN : BlockRunCall(cmd, sh)
  \/ BlockTry
  \/ CoPopen
  \/ CoCommunicate
  \/ CoReturn
  \/ AdmitFull(MainThread)
  \/ AdmitPut(MainThread)
  \/ CompactNew(MainThread)
  \/ CompactEmpty(MainThread)
  \/ CompactGet(MainThread)
  \/ CompactSwap(MainThread)
  \/ CompactFull(MainThread)
  \/ CompactPut(MainThread)
  \/ Spawn(MainThread, TRUE)
  \/ BlockRunReturned
  \/ \E h \in Handlers, code \in ExitCodes : ProcExit(h, code)
  \/ ProcWrite
  \/ ReaderStart
  \/ ReaderReadline
  \/ ReaderFull
  \/ ReaderPut
  \/ ReaderClose
  \/ BlockPoll
  \/ BlockAlive
  \/ BlockSleep
  \/ BlockGetOutput
  \/ GetOutputStep(MainThread)
  \/ BlockCollect
  \/ BlockExitCheck

SpecBlock == InitBlock /\ [][NextBlock]_vars

\* One step of the thread that called block_run
BlockStep ==
  \/ BlockTry
  \/ CoPopen
  \/ CoCommunicate
  \/ CoReturn
  \/ RunStep(MainThread)
  \/ BlockRunReturned
  \/ BlockPoll
  \/ BlockAlive
  \/ BlockSleep
  \/ BlockGetOutput
  \/ GetOutputStep(MainThread)
  \/ BlockCollect
  \/ BlockExitCheck

\* One step of the reader thread of block_run's handler
ReaderStep ==
  \/ ReaderStart
  \/ ReaderReadline
  \/ ReaderFull
  \/ ReaderPut
  \/ ReaderClose

\* SpecBlock with a fair scheduler: the calling thread and the reader
\* thread take the steps they can take.  Nothing obliges the command to
\* write or to exit.
SpecBlockFair ==
  /\ InitBlock /\ [][NextBlock]_vars
  /\ WF_vars(BlockStep)
  /\ WF_vars(ReaderStep)

\* ------------------------------------------------- claims on SpecOutput
RECURSIVE IsSubseq(_, _)
IsSubseq(a, b) ==
  IF a = <<>> THEN TRUE
  ELSE IF b = <<>> THEN FALSE
  ELSE IF Head(a) = Head(b) THEN IsSubseq(Tail(a), Tail(b))
  ELSE IsSubseq(a, Tail(b))

\* The last k of the first n lines of the command's output
LastOf(n, k) == [i \in 1..k |-> Line(n - k + i)]

\* The reader is between two turns of its loop (or past it) and no
\* get_output call was ever started
OnlyEnqueues == ~called /\ rpc \in {"readline", "close", "done"}

\* C1: with a capacity C >= 1, once the reader has enqueued N > C lines and
\* no get_output call was made, the buffer holds exactly the last C of the
\* N lines, in their original order.
C1_LastLinesKept ==
  (max_line # None /\ max_line[1] >= 1 /\ OnlyEnqueues
     /\ nread > max_line[1])
    => output_queue = LastOf(nread, max_line[1])

C1_Witness ==
  /\ max_line # None /\ max_line[1] >= 1 /\ OnlyEnqueues
  /\ nread = MaxLines /\ nread > max_line[1]
  /\ Len(enqueued) = nread /\ evicted # {}

Taken(c) == returned[c] \o ret_list[c]
InHand == IF rpc \in {"full", "get", "put"} THEN {line} ELSE {}
NoDup(s) == \A i, j \in 1..Len(s) : s[i] = s[j] => i = j
C3_NoLineLostOrDuplicated ==
  /\ Range(Stream(nread)) =
       InHand \cup Range(output_queue) \cup evicted
         \cup UNION {Range(Taken(c)) : c \in Consumers}
  /\ NoDup(output_queue)
  /\ \A c \in Consumers : NoDup(Taken(c))
  /\ \A c, d \in Consumers : c # d => Range(Taken(c)) \cap Range(Taken(d)) = {}
  /\ \A c \in Consumers : Range(Taken(c)) \cap Range(output_queue) = {}
  /\ \A c \in Consumers : Range(Taken(c)) \cap evicted = {}
  /\ Range(output_queue) \cap evicted = {}
  /\ InHand \cap (Range(output_queue) \cup evicted) = {}

\* This step is the return of c's get_output call
Returns(c) == cpc[c] = "loop" /\ cpc'[c] = "idle"

\* C4: once the process has exited and the reader has ended without any
\* eviction, the first get_output call returns the concatenation of all
\* lines the command wrote, in order; and a call made after another call
\* returned, with no line enqueued since, returns ''.
C4_SingleDrain ==
  [][\A c \in Consumers :
       Returns(c) =>
         /\ (first[c] /\ evicted = {})
              => Join(ret_list[c]) = Join(Stream(written))
         /\ noNew[c] => Join(ret_list[c]) = <<>>]_vars

C4_Witness ==
  /\ seen = {"first", "noNew"}
  /\ written >= 2 /\ evicted = {}
  /\ \E c \in Consumers : Join(returned[c]) = Join(Stream(written))
  /\ \A c \in Consumers : cpc[c] = "idle"

\* C5: the lines a caller got from its successive get_output calls, taken
\* together in the order it got them, are a subsequence of the order in
\* which the reader enqueued them.
C5_ConsumerOrder ==
  \A c \in Consumers : IsSubseq(Taken(c), enqueued)

C5_Witness ==
  \E c \in Consumers :
    /\ returned[c] = <<Line(1), Line(3)>>
    /\ cpc[c] = "idle"

\* --------------------------------------------- claims on Spec, SpecSeq
\* This step ends thread t's admission (by a return or by an exception)
AdmissionEnds(t) ==
  /\ pc[t] \in {"admit_full", "admit_put", "compact_new", "compact_empty",
                "compact_get", "compact_swap", "compact_full", "compact_put"}
  /\ pc'[t] \in {"idle", "spawn"}

IsRunning(h) == proc[h].spawned /\ proc[h].alive
HasTerminated(h) == proc[h].spawned /\ ~proc[h].alive
\* The still-running entries of a registry content, in their order
Survivors(q) == SelectSeq(q, IsRunning)
NTerminated(q) == Cardinality({i \in 1..Len(q) : HasTerminated(q[i])})

\* C6: under any interleaving of run() calls, process exits, compactions
\* and the reaper, the registry never holds more than MAX_PROCS entries.
C6_RegistryBounded == Len(procs) <= MAX_PROCS

C6_Witness ==
  /\ Len(procs) = MAX_PROCS
  /\ \E h \in Handlers : HasTerminated(h) /\ h \notin Range(procs)
  /\ \E t \in Threads : outcome[t] = "ok" /\ self[t] \in Range(procs)

\* C7: a run() call that finds the registry holding MAX_PROCS entries whose
\* processes are all running (and stay so until its admission ends) fails
\* with ExeException; and after that failure its handler has no process and
\* no reader thread.
C7_ExhaustedRefused ==
  /\ [][(/\ AdmissionEnds(MainThread)
          /\ Len(pre) = MAX_PROCS
          /\ \A i \in 1..Len(pre) : IsRunning(pre[i]))
           => outcome'[MainThread] = "ExeException"]_vars
  /\ [](\A t \in Threads :
          outcome[t] = "ExeException"
            => ~proc[self[t]].spawned /\ thread[self[t]] = 0)

C7_Witness ==
  \E t \in Threads :
    /\ outcome[t] = "ExeException" /\ pc[t] = "idle"
    /\ Len(procs) = MAX_PROCS
    /\ \A i \in 1..Len(procs) : IsRunning(procs[i])
    /\ proc[self[t]] = NoProc

\* C8: a run() call that finds the registry at capacity with k >= 1
\* terminated processes in it (no process exiting during the admission) is
\* admitted, and the registry is then the still-running entries in their
\* order followed by the new handler: MAX_PROCS - k + 1 entries.
C8_CompactionAdmits ==
  [][(/\ AdmissionEnds(MainThread)
      /\ Len(pre) = MAX_PROCS
      /\ quiet
      /\ NTerminated(pre) >= 1)
       => /\ pc'[MainThread] = "spawn"
          /\ procs' = Append(Survivors(pre), self[MainThread])
          /\ Len(procs') = MAX_PROCS - NTerminated(pre) + 1]_vars

\* C9: while the interpreter is not exiting and no run() call is in
\* progress, every handler whose process is still running is an entry of
\* the registry.
C9_RunningStayTracked ==
  (~exiting /\ \A t \in Threads : pc[t] = "idle")
    => \A h \in Handlers : IsRunning(h) => h \in Range(procs)

\* C10: when run() is about to spawn the command its handler is already an
\* entry of the registry, and a handler whose admission was refused or
\* failed never has a process.
C10_AdmitBeforeSpawn ==
  \A t \in Threads :
    /\ pc[t] = "spawn" => self[t] \in Range(procs)
    /\ outcome[t] \in {"ExeException", "AttributeError"}
         => ~proc[self[t]].spawned

C10_Witness ==
  \E t \in Threads :
    /\ pc[t] = "idle" /\ outcome[t] = "ok"
    /\ IsRunning(self[t]) /\ self[t] \in Range(procs)
    /\ self[t] = NHandlers

\* Thread t is inside _append_proc_handler (lines 111-148)
InAdmission(t) ==
  pc[t] \in {"admit_full", "admit_put", "compact_new", "compact_empty",
             "compact_get", "compact_swap", "compact_full", "compact_put"}

\* C11: whenever no run() call is in progress, every entry of the registry
\* is a handler with a spawned process, and the handler of a run() whose
\* spawn failed is not an entry of the registry.
C11_EntriesSpawned ==
  (\A t \in Threads : pc[t] = "idle")
    => /\ \A i \in 1..Len(procs) : proc[procs[i]].spawned
       /\ \A t \in Threads :
            outcome[t] = "OSError" => self[t] \notin Range(procs)

\* C12: the admissions of two concurrent run() calls never interleave: at
\* most one thread is inside _append_proc_handler at a time, so no two
\* threads have both passed the capacity check of line 111 and are both
\* about to put.
C12_AdmissionsSerialized ==
  /\ Cardinality({t \in Threads : InAdmission(t)}) <= 1
  /\ Cardinality({t \in Threads : pc[t] = "admit_put"}) <= 1

\* ----------------------------------------- claims on SpecApi, SpecKill
\* C18: run(), poll() and kill() never raise ExeExitcodeException, whatever
\* exit code the process ends with: poll() and kill() hand the exit status
\* to the caller as a value.
C18_NoExitcodeError ==
  /\ polled.exc # "ExeExitcodeException"
  /\ \A t \in Threads : outcome[t] # "ExeExitcodeException"
  /\ \A h \in Handlers :
       (polled.h = h /\ polled.exc = "none" /\ polled.val # None)
         => ~proc[h].alive /\ polled.val = <<proc[h].returncode>>

C18_Witness ==
  \E h \in Handlers :
    /\ polled = Returned(h, <<3>>)
    /\ proc[h] = Exited(3)
    /\ outcome[MainThread] = "ok"

BlockEnded(code) ==
  /\ bpc = "done"
  /\ proc[Observed].spawned /\ ~proc[Observed].alive
  /\ proc[Observed].returncode = code

\* C13: block_run on a command that exits with code 0 returns the complete
\* text the command wrote, in order.
C13_ReturnsOutput ==
  BlockEnded(0) => bresult = Return(Join(Stream(written)))

C13_Witness ==
  /\ BlockEnded(0) /\ ~py27
  /\ written = MaxLines
  /\ bresult = Return(Join(Stream(MaxLines)))

\* C14: block_run on a command that exits with a non-zero code n raises
\* ExeExitcodeException with exitcode n, with the command that was run and
\* with what the command wrote as output; it never returns normally then.
C14_NonZeroRaises ==
  \A n \in ExitCodes \ {0} :
    BlockEnded(n)
      => bresult = ExeExitcodeException(Prepare(given, shell), n,
                                        Join(Stream(written)))

C14_Witness ==
  /\ BlockEnded(3) /\ ~py27
  /\ written >= 2
  /\ given.type = "str" /\ ~shell
  /\ bresult.exc = "ExeExitcodeException" /\ bresult.exitcode = 3
  /\ bresult.command = List(<<<<"a">>, <<"b">>>>)
  /\ bresult.output = Join(Stream(written))

\* C15: in the polling path get_output is called exactly once, and only
\* when poll() has returned an exit code and the reader thread has ended.
C15_CollectAfterBoth ==
  /\ [][(cpc[MainThread] = "idle" /\ cpc'[MainThread] = "loop")
          => /\ ~called
             /\ ~proc[Observed].alive
             /\ rpc \in {"done", "dead"}]_vars
  /\ []((bpc = "done" /\ ~py27 /\ proc[Observed].spawned) => called)

C15_Witness ==
  /\ ~py27 /\ bpc = "exitcheck"
  /\ called /\ rpc = "done" /\ written >= 1
  /\ output = Join(Stream(written))

\* C16: every command block_run spawns was admitted into the registry
\* before it was spawned, and block_run called on a registry that is full
\* of running processes raises ExeException and spawns nothing.
C16_BlockRunAdmits ==
  /\ proc[Observed].spawned => Observed \in Range(procs)
  /\ (/\ bpc = "done"
      /\ Len(procs) = MAX_PROCS
      /\ \A i \in 1..Len(procs) : procs[i] # Observed /\ IsRunning(procs[i]))
       => bresult = Propagate("ExeException") /\ ~proc[Observed].spawned

\* C17: when the platform cannot spawn the command, run() raises
\* ExeException and block_run propagates it without waiting.  (In the
\* polling path a run() that ended with an exception after its handler was
\* admitted is one whose spawn failed; check_output fails before any
\* process exists only when its spawn failed.)
C17_SpawnFailureRaises ==
  /\ (/\ bpc # "off" /\ ~py27
      /\ pc[MainThread] = "idle"
      /\ outcome[MainThread] \notin {"none", "ok"}
      /\ Observed \in Range(procs))
       => outcome[MainThread] = "ExeException"
  /\ (/\ bpc = "done" /\ bresult.kind = "raise"
      /\ ~proc[Observed].spawned
      /\ py27 \/ Observed \in Range(procs))
       => bresult.exc = "ExeException"

\* ---------------------------------------------------------- SpecNonBlock
\* One caller polls the handler of SpecOutput and calls get_output on it
\* while its process writes and its reader enqueues.  The calling thread is
\* scheduled fairly: a turn of the get_output loop that can run does run.
NextNonBlock ==
  \/ ProcWrite
  \/ \E code \in ExitCodes : ProcExit(Observed, code)
  \/ ReaderReadline
  \/ ReaderFull
  \/ ReaderGet
  \/ ReaderPut
  \/ ReaderClose
  \/ GetOutputCall(MainThread)
  \/ GetOutputStep(MainThread)
  \/ PollCall(Observed)

SpecNonBlock ==
  /\ InitOutput
  /\ [][NextNonBlock]_vars
  /\ WF_vars(GetOutputStep(MainThread))

\* ------------------------------------------------- claims on SpecReap
\* C21: a kill attempt of the reaper that fails does not make the reaper
\* raise: the reaper still visits every remaining entry of the registry, so
\* once it has ended the registry is empty and every entry that was still
\* running at its visit was sent a kill.
C21_ReaperGoesOn ==
  /\ tpc # "raised"
  /\ tpc \in {"done", "raised"} => procs = <<>>

\* ------------------------------------------------- claims on SpecSeq
\* C22: after any sequence of run() calls and process exits followed by one
\* run of the reaper, no process spawned through run() is left running
\* without having been sent a kill: once the reaper has ended, every spawned
\* process has exited or was sent the reaper's kill.
C22_NoneLeftRunning ==
  tpc = "done" => \A h \in Handlers : IsRunning(h) => killed[h]

\* ------------------------------------------------- claims on SpecOutput
\* C23: the reader thread never ends without having closed the pipe: under
\* any interleaving with get_output callers, a reader that has ended has
\* read the stream to its end and closed it.
C23_ReaderClosesPipe ==
  rpc \in {"done", "dead"} => stdout_closed

\* C24: after any sequence of run() calls, a handler has exactly one reader
\* thread when its stdout is the pipe and its spawn succeeded, and none
\* otherwise (stdout given by the caller, spawn failed, admission refused):
\* no handler's output queue is fed by more than one reader.
C24_OneReader ==
  \A h \in Handlers :
    thread[h] = IF proc[h].spawned /\ stdout[h] = PIPE THEN 1 ELSE 0

\* Three run() calls have ended: one captured, one with the caller's own
\* stdout, one whose spawn failed
C24_Witness ==
  /\ pc[MainThread] = "idle"
  /\ \E h \in Handlers :
       proc[h].spawned /\ stdout[h] = PIPE /\ thread[h] = 1
  /\ \E h \in Handlers :
       proc[h].spawned /\ stdout[h] = File /\ thread[h] = 0
  /\ \E h \in Handlers :
       ~proc[h].spawned /\ stdout[h] = PIPE /\ thread[h] = 0

\* ------------------------------------------------- claims on SpecNonBlock
\* C25: poll() and get_output() never block.  poll() can always be taken and
\* returns None for a running process and the exit code for a terminated
\* one; every turn of the get_output loop can be taken whatever the buffer
\* holds; a turn that finds nothing buffered and has collected nothing
\* returns the empty string, also while the process is running; and a call
\* of get_output ends, the reader enqueueing finitely many lines.
C25_NeverBlock ==
  /\ [](ENABLED PollCall(Observed))
  /\ [][polled' # polled
          => polled' = [h |-> Observed, exc |-> "none",
                        val |-> IF proc[Observed].alive THEN None
                                ELSE <<proc[Observed].returncode>>]]_vars
  /\ [](cpc[MainThread] = "loop" => ENABLED GetOutputStep(MainThread))
  /\ [][(/\ cpc[MainThread] = "loop"
         /\ output_queue = <<>> /\ ret_list[MainThread] = <<>>
         /\ <<cpc, ret_list>>' # <<cpc, ret_list>>)
          => Returns(MainThread)
             /\ returned'[MainThread] = returned[MainThread]]_vars
  /\ (cpc[MainThread] = "loop") ~> (cpc[MainThread] = "idle")

\* While the process is running and has written a line the reader has not
\* enqueued yet, poll() has returned None and a get_output call has
\* returned the empty string.
C25_Witness ==
  /\ proc[Observed].alive /\ written = 1 /\ enqueued = <<>>
  /\ polled = Returned(Observed, None)
  /\ called /\ cpc[MainThread] = "idle"
  /\ returned[MainThread] = <<>>

Consecutive(s) == \A i \in 1..(Len(s) - 1) : s[i + 1][1] = s[i][1] + 1

\* C27: get_output drains atomically: what a call returns is the content
\* the buffer had at one instant, so it is a run of consecutive enqueued
\* lines (the buffer is first in first out and only its oldest lines are
\* ever removed), no longer than the capacity; lines buffered together are
\* never split between two callers.
C27_AtomicDrain ==
  [][\A c \in Consumers :
       Returns(c)
         => /\ Consecutive(ret_list[c])
            /\ Maxsize(max_line) > 0
                 => Len(ret_list[c]) <= Maxsize(max_line)]_vars

\* C28: every enqueue step of the reader completes by appending the new
\* line, under any interleaving with get_output callers: it never fails (the
\* reader does not die of an exception), and it removes the oldest line only
\* when the buffer is at capacity at the moment of the removal.
C28_EnqueueCompletes ==
  /\ [](rpc # "dead")
  /\ [][evicted' # evicted => Full(output_queue, Maxsize(max_line))]_vars

\* ------------------------------------------------- claims on SpecSeq
\* The main thread is inside the compaction of _append_proc_handler
Compacting ==
  pc[MainThread] \in {"compact_new", "compact_empty", "compact_get",
                      "compact_swap", "compact_full", "compact_put"}

\* C29: an admission into a registry that is below capacity only appends
\* the new handler at the tail: no compaction runs, no existing entry
\* (running or terminated) is removed or reordered, and the size grows by
\* exactly one.
C29_BelowCapacityAppends ==
  /\ []((pc[MainThread] # "idle" /\ Len(pre) < MAX_PROCS) => ~Compacting)
  /\ [][(AdmissionEnds(MainThread) /\ Len(pre) < MAX_PROCS)
          => /\ pc'[MainThread] = "spawn"
             /\ procs' = Append(pre, self[MainThread])
             /\ Len(procs') = Len(pre) + 1]_vars

\* The admission has ended below capacity and has kept a terminated entry
C29_Witness ==
  /\ pc[MainThread] = "spawn"
  /\ Len(procs) = MAX_PROCS
  /\ procs[Len(procs)] = self[MainThread]
  /\ \A i \in 1..(Len(procs) - 1) : proc[procs[i]] = Exited(3)

\* C30: an admission that fails with ExeException leaves the registry's
\* contents unchanged: the same MAX_PROCS handlers in the same order as
\* before the call, and the rejected handler is not among them.
C30_RefusalKeepsRegistry ==
  [][(AdmissionEnds(MainThread) /\ outcome'[MainThread] = "ExeException")
       => /\ procs' = pre
          /\ Len(procs') = MAX_PROCS
          /\ self[MainThread] \notin Range(procs')]_vars

\* A third handler was refused and the two before it are still tracked in
\* their order
C30_Witness ==
  /\ outcome[MainThread] = "ExeException" /\ pc[MainThread] = "idle"
  /\ self[MainThread] = MAX_PROCS + 1
  /\ procs = [i \in 1..MAX_PROCS |-> i]

\* ------------------------------------------------- claims on SpecFair
\* C31: every admission terminates: under any interleaving of concurrent
\* run() calls and of the reaper, a thread that is inside
\* _append_proc_handler eventually leaves it, by a return or by an exception;
\* none stays blocked forever on a put or a get of the registry.
C31_AdmissionTerminates ==
  \A t \in Threads : InAdmission(t) ~> ~InAdmission(t)

\* ------------------------------------------------- claims on Spec
\* C32: concurrent admissions lose no entry: once the concurrent run() calls
\* have all ended (and the reaper has not begun), every handler whose
\* process was spawned and is still running, be it admitted by one of those
\* calls or tracked before them, is an entry of the registry.
C32_NoEntryLost ==
  (tpc = "off" /\ \A t \in Threads : pc[t] = "idle")
    => \A h \in 1..created : StillRunning(proc[h]) => h \in Range(procs)

\* ------------------------------------------------- claims on SpecApi
\* C33: a handler's observed state only moves forward: the exit status of a
\* process that has exited never changes, and every poll() or kill() on its
\* handler that returns a value from then on returns that same exit code,
\* never None, whatever run(), poll() and kill() calls come in between.
C33_StateMovesForward ==
  [][\A h \in Handlers :
       (proc[h].spawned /\ ~proc[h].alive)
         => /\ proc'[h] = proc[h]
            /\ (polled' # polled /\ polled'.h = h /\ polled'.exc = "none")
                 => polled'.val = <<proc[h].returncode>>]_vars

\* A process has exited with code 3 and the latest call, a poll() on its
\* handler, returned 3, after another handler's process was killed
C33_Witness ==
  \E h, g \in Handlers :
    /\ h # g
    /\ proc[h] = Exited(3) /\ ~killed[h]
    /\ polled = Returned(h, <<3>>)
    /\ killed[g] /\ proc[g] = Exited(-SIGKILL)

\* ------------------------------------------------- claims on SpecTwice
\* C34: the reaper consumes the registry: when _terminate has ended the
\* registry is empty, and from then on, with no run() call, the registry
\* stays empty and no kill is issued: a second run of _terminate finds
\* nothing to visit and ends at once.
C34_ReaperConsumes ==
  /\ [](tpc \in {"done", "again"} => procs = <<>>)
  /\ [][(tpc \in {"done", "again"})
          => (/\ procs' = <<>>
              /\ killed' = killed
              /\ tpc' \in {"done", "again"})]_vars

\* _terminate is running for the second time, after its first run emptied
\* a registry of MAX_PROCS entries and killed a running command
C34_Witness ==
  /\ tpc = "again" /\ procs = <<>>
  /\ created = MAX_PROCS
  /\ \A h \in 1..created : proc[h].spawned
  /\ \E h \in Handlers : killed[h]
  /\ \E h \in Handlers : proc[h] = Exited(-SIGKILL)

\* ------------------------------------------------- claims on SpecBlockFair
\* C35: block_run waits for the exit of the process: it has not returned
\* nor raised ExeExitcodeException while the process is still running, and
\* once the process it spawned has exited (its output stream then reaches
\* its end) block_run eventually ends.
C35_WaitsForExit ==
  /\ []((/\ bpc = "done"
         /\ \/ bresult.kind = "return"
            \/ bresult.exc = "ExeExitcodeException")
          => proc[Observed].spawned /\ ~proc[Observed].alive)
  /\ (bpc # "off" /\ proc[Observed].spawned /\ ~proc[Observed].alive)
       ~> (bpc = "done")

\* block_run is asleep in its loop while the command, which has written
\* two lines that the reader has enqueued, is still running
C35_Witness ==
  /\ bpc = "sleep"
  /\ proc[Observed].alive
  /\ rpc = "readline" /\ enqueued = Stream(2)

\* ------------------------------------------------- claims on SpecSeq
\* C36: each handler appears at most once in the registry and has at most
\* one reader and one process; and whenever no run() call is in progress and
\* the interpreter is not exiting, no run() call has left a running process
\* whose handler is not an entry of the registry.
C36_OneEntryOneProcess ==
  /\ NoDup(procs)
  /\ \A h \in Handlers : thread[h] <= 1
  /\ (tpc = "off" /\ pc[MainThread] = "idle")
       => \A h \in 1..created :
            (proc[h].spawned /\ proc[h].alive)
              => \E i \in 1..Len(procs) : procs[i] = h

\* ------------------------------------------------------------- SpecArgs
\* The arguments of run(): commands are strings of at most MaxLen
\* characters, a list with an item that holds a space, and a tuple; each
\* keyword argument is absent or has one of the values below.
MaxLen == 4
Chars == {"a", "b", SP}
ArgCommands ==
  {Str(c) : c \in UNION {[1..n -> Chars] : n \in 0..MaxLen}}
    \cup {List(<<<<"a", SP, "b">>>>), Tuple(<<<<"a">>, <<"b", SP>>>>)}
\* stdout=None: the command inherits the caller's stream
Inherit == "inherit"
Opt(values) == {Absent} \cup {<<v>> : v \in values}
ArgKwargs ==
  [stdout : Opt({PIPE, File, Inherit}),
   stderr : Opt({STDOUT, PIPE, File}),
   bufsize : Opt({0, 1}),
   close_fds : Opt(BOOLEAN),
   shell : Opt(BOOLEAN)]

\* run(given, **kwargs) is about to be called on a fresh handler
InitArgs ==
  /\ max_line = None
  /\ output_queue = <<>>
  /\ written = 0
  /\ nread = 0
  /\ rpc = "unstarted"
  /\ line = NoLine
  /\ stdout_closed = FALSE
  /\ cpc = [c \in Consumers |-> "idle"]
  /\ ret_list = [c \in Consumers |-> <<>>]
  /\ enqueued = <<>>
  /\ evicted = {}
  /\ returned = [c \in Consumers |-> <<>>]
  /\ called = FALSE
  /\ first = [c \in Consumers |-> FALSE]
  /\ noNew = [c \in Consumers |-> FALSE]
  /\ drained = FALSE
  /\ seen = {}
  /\ procs = <<>>
  /\ proc = [h \in Handlers |-> NoProc]
  /\ thread = [h \in Handlers |-> 0]
  /\ stdout = [h \in Handlers |-> NoStdout]
  /\ created = 0
  /\ pc = [t \in Threads |-> "idle"]
  /\ self = [t \in Threads |-> 0]
  /\ new_queue = [t \in Threads |-> <<>>]
  /\ outcome = [t \in Threads |-> "none"]
  /\ exiting = FALSE
  /\ tpc = "off"
  /\ pre = <<>>
  /\ quiet = TRUE
  /\ killed = [h \in Handlers |-> FALSE]
  /\ polled = NoCall
  /\ py27 = TRUE
  /\ bpc = "off"
  /\ given \in ArgCommands
  /\ command = NoCommand
  /\ shell = FALSE
  /\ output = <<>>
  /\ bresult = NoResult
  /\ kwargs \in ArgKwargs
  /\ _command = NoCommand
  /\ popen = NoPopen

\* lines 177-186: kwargs = self._override_kwargs(kwargs); self._command =
\* command; the command is split or kept; subprocess.Popen(command,
\* **kwargs) is called with the result.
RunPrepare ==
  /\ popen = NoPopen
  /\ _command' = given
  /\ popen' = <<[args |-> PopenCommand(given, OverrideKwargs(kwargs)),
                 kwargs |-> OverrideKwargs(kwargs)]>>
  /\ UNCHANGED <<ovars, rvars, avars, bvars, kwargs>>

NextArgs == RunPrepare

SpecArgs == InitArgs /\ [][NextArgs]_vars

\* The k-th smallest member of a set of numbers
Kth(S, k) == CHOOSE x \in S : Cardinality({y \in S : y < x}) = k - 1

\* The positions where a maximal run of non-space characters begins, ends
RunStarts(chars) ==
  {i \in 1..Len(chars) : chars[i] # SP /\ (i = 1 \/ chars[i - 1] = SP)}
RunEnds(chars) ==
  {i \in 1..Len(chars) :
     chars[i] # SP /\ (i = Len(chars) \/ chars[i + 1] = SP)}

\* words are the maximal runs of non-space characters of chars, in order
IsWhitespaceSplit(chars, words) ==
  /\ Len(words) = Cardinality(RunStarts(chars))
  /\ \A k \in 1..Len(words) :
       words[k] = SubSeq(chars, Kth(RunStarts(chars), k),
                         Kth(RunEnds(chars), k))

\* C37: once run() has called Popen, self._command is the command as the
\* caller gave it; a string command without shell mode reached Popen as
\* the list of its whitespace-separated words; a string command with shell
\* mode, a list and a tuple reached Popen unchanged.
C37_CommandPreparation ==
  popen # NoPopen =>
    /\ _command = given
    /\ IF given.type = "str" /\ ~(kwargs.shell = <<TRUE>>)
         THEN /\ popen[1].args.type = "list"
              /\ IsWhitespaceSplit(given.chars, popen[1].args.items)
         ELSE popen[1].args = given

\* A string with two spaces in a row was split into its two words
C37_Witness ==
  /\ popen # NoPopen
  /\ given = Str(<<"b", SP, SP, "a">>)
  /\ kwargs.shell # <<TRUE>>
  /\ popen[1].args = List(<<<<"b">>, <<"a">>>>)
  /\ _command = given

\* A string command in shell mode reached Popen whole
C37_WitnessShell ==
  /\ popen # NoPopen
  /\ given = Str(<<"a", SP, "b">>)
  /\ kwargs.shell = <<TRUE>>
  /\ popen[1].args = given

C39_CallerValuesOverridden ==
  popen # NoPopen =>
    /\ popen[1].kwargs.stderr = <<STDOUT>>
    /\ popen[1].kwargs.bufsize = <<1>>
    /\ popen[1].kwargs.close_fds = <<ON_POSIX>>

====
